---------------------------- MODULE Spec2Model ----------------------------
(***************************************************************************)
(* Signalstate backend (src/backend/app.py): the frame analysis pipeline,  *)
(* the temporal smoother and the metrics tracker.                          *)
(*                                                                         *)
(* Python floats are modelled as exact rationals <<numerator, denominator>>*)
(* in lowest terms with a positive denominator, so that arithmetic is      *)
(* computed (a mean, a reciprocal, a product) and equality is structural.  *)
(* Exceptions are modelled as values: every operator that can raise        *)
(* returns [exc |-> "none", val |-> v] or [exc |-> <exception>, ...].      *)
(***************************************************************************)
EXTENDS Integers, Sequences, FiniteSets, TLC

VARIABLES
    buffer,           \* smoother.buffer: deque(maxlen=window_size) of vectors
    frame_times,      \* metrics_tracker.frame_times: deque(maxlen=30)
    inference_times,  \* metrics_tracker.inference_times: deque(maxlen=30)
    last,             \* the last call made: its inputs and what it returned
    calls,            \* number of calls made so far
    log,              \* history kept for the properties, never read by the code
    tasks             \* the requests the event loop holds, each with its position

vars == <<buffer, frame_times, inference_times, last, calls, log, tasks>>

-----------------------------------------------------------------------------
\* Bounds of the model.

\* calls per behaviour of the service specification
MaxCalls == 4
\* calls per behaviour of the smoother specification
MaxSmooth == 7
\* recordings into one metrics buffer between two resets
MaxRecord == 32
\* requests the event loop holds in one behaviour
MaxTasks == 3

-----------------------------------------------------------------------------
\* Float arithmetic, as exact rationals.

Abs(x) == IF x < 0 THEN -x ELSE x

RECURSIVE GCD(_, _)
GCD(a, b) == IF b = 0 THEN a ELSE GCD(b, a % b)

\* n/d in lowest terms, d # 0
Rat(n, d) ==
    LET s == IF d < 0 THEN -1 ELSE 1
        g == GCD(Abs(n), Abs(d))
    IN  <<(s * n) \div g, (s * d) \div g>>

R(n) == <<n, 1>>
RatAdd(a, b) == Rat(a[1] * b[2] + b[1] * a[2], a[2] * b[2])
RatSub(a, b) == Rat(a[1] * b[2] - b[1] * a[2], a[2] * b[2])
RatMul(a, b) == Rat(a[1] * b[1], a[2] * b[2])
\* b # 0
RatDiv(a, b) == Rat(a[1] * b[2], a[2] * b[1])
RatLT(a, b) == a[1] * b[2] < b[1] * a[2]
RatAbs(a) == <<Abs(a[1]), a[2]>>

\* Python's int(x): truncation toward zero
int(a) == IF a[1] >= 0 THEN a[1] \div a[2] ELSE -((-a[1]) \div a[2])

\* Python's builtin sum() over a sequence of floats; exact addition is
\* associative, so the terms are added pairwise by halves
RECURSIVE sum(_)
sum(s) ==
    IF Len(s) = 0 THEN R(0)
    ELSE IF Len(s) = 1 THEN s[1]
    ELSE LET half == Len(s) \div 2
         IN  RatAdd(sum(SubSeq(s, 1, half)), sum(SubSeq(s, half + 1, Len(s))))

\* Python's min()/max() over a non-empty collection of floats
min(S) == CHOOSE a \in S : \A b \in S : ~RatLT(b, a)
max(S) == CHOOSE a \in S : \A b \in S : ~RatLT(a, b)

Ok(v) == [exc |-> "none", val |-> v]
Raise(e) == [exc |-> e, val |-> <<>>]

-----------------------------------------------------------------------------
\* collections.deque(maxlen=n)

\* the no-eviction bug: append without honouring maxlen
deque_append_unbounded(d, x, maxlen) == Append(d, x)

\* deque.append: when the deque is full the leftmost item is discarded
deque_append(d, x, maxlen) ==
    IF maxlen = 0 THEN d
    ELSE IF Len(d) >= maxlen THEN Append(Tail(d), x)
    ELSE Append(d, x)

\* deque.clear
deque_clear(d) == <<>>

-----------------------------------------------------------------------------
\* Emotion labels and probability vectors

EMOTION_LABELS ==
    <<"Angry", "Disgust", "Fear", "Happy", "Sad", "Surprise", "Neutral">>

NLabels == Len(EMOTION_LABELS)

\* the divisor bug: the sum divided by the window size, not by the number
\* of buffered vectors
np_mean_by_window(buf) ==
    [i \in 1..NLabels |->
        RatDiv(sum([k \in 1..Len(buf) |-> buf[k][i]]), R(5))]

\* np.mean(buffer, axis=0): element-wise sum over the buffered vectors
\* divided by their number
np_mean_axis0(buf) ==
    [i \in 1..NLabels |->
        RatDiv(sum([k \in 1..Len(buf) |-> buf[k][i]]), R(Len(buf)))]

\* the tie bug: the last index holding the maximum
np_argmax_last(v) ==
    CHOOSE i \in 1..Len(v) :
        /\ \A j \in 1..Len(v) : ~RatLT(v[i], v[j])
        /\ \A j \in (i + 1)..Len(v) : RatLT(v[j], v[i])

\* np.argmax: the first index holding the maximum (1-based here)
np_argmax(v) ==
    CHOOSE i \in 1..Len(v) :
        /\ \A j \in 1..Len(v) : ~RatLT(v[i], v[j])
        /\ \A j \in 1..(i - 1) : RatLT(v[j], v[i])

-----------------------------------------------------------------------------
\* class TemporalSmoother

window_size == 5

\* TemporalSmoother.smooth: the buffer after the call and the value returned
smooth(buf, probabilities) ==
    LET b == deque_append(buf, probabilities, window_size)
    IN  [buffer |-> b,
         out    |-> IF Len(b) = 0 THEN probabilities ELSE np_mean_axis0(b)]

\* the reset bug: the newest vector survives the reset
smoother_reset_keep(buf) == IF buf = <<>> THEN buf ELSE <<buf[Len(buf)]>>

\* TemporalSmoother.reset
smoother_reset(buf) == deque_clear(buf)

-----------------------------------------------------------------------------
\* class MetricsTracker

metrics_maxlen == 30

add_frame_time(ft, duration) == deque_append(ft, duration, metrics_maxlen)

\* the skipped-sample bug: a duration of 0.0 is not recorded
add_inference_time_nonzero(it, duration) ==
    IF duration = R(0) THEN it ELSE deque_append(it, duration, metrics_maxlen)

add_inference_time(it, duration) == deque_append(it, duration, metrics_maxlen)

\* the reciprocal bug: the mean frame time reported as the throughput
get_fps_mean(ft) ==
    IF Len(ft) = 0 THEN Ok(R(0))
    ELSE Ok(RatDiv(sum(ft), R(Len(ft))))

\* MetricsTracker.get_fps; 1.0 / 0.0 raises ZeroDivisionError
get_fps(ft) ==
    IF Len(ft) = 0 THEN Ok(R(0))
    ELSE LET mean == RatDiv(sum(ft), R(Len(ft)))
         IN  IF mean = R(0) THEN Raise("ZeroDivisionError")
             ELSE Ok(RatDiv(R(1), mean))

\* MetricsTracker.get_avg_inference, in milliseconds
get_avg_inference(it) ==
    IF Len(it) = 0 THEN R(0)
    ELSE RatMul(RatDiv(sum(it), R(Len(it))), R(1000))

-----------------------------------------------------------------------------
\* Frames and landmarks.  A decoded frame is its shape and the mean of its
\* gray conversion (np.mean(cv2.cvtColor(frame, COLOR_BGR2GRAY))); a landmark
\* is its normalized x and y (z and idx are carried to the response only and
\* enter no computation).  A Python list of landmarks is its length and its
\* items by index 0..len-1: the items listed in at, and dflt at every other
\* index.

EmptyList == [len |-> 0, at |-> <<>>, dflt |-> <<>>]

\* len(landmarks)
len(landmarks) == landmarks.len

\* the items of the list, as a set
items(landmarks) ==
    {landmarks.at[i] : i \in DOMAIN landmarks.at}
    \cup (IF landmarks.len > Cardinality(DOMAIN landmarks.at)
          THEN {landmarks.dflt} ELSE {})

NOSE_TIP == 1
LEFT_EYE == 33
RIGHT_EYE == 263

\* landmarks[i] of a Python list
item(landmarks, i) ==
    IF i >= len(landmarks) THEN Raise("IndexError")
    ELSE IF i \in DOMAIN landmarks.at THEN Ok(landmarks.at[i])
    ELSE Ok(landmarks.dflt)

\* the clamp bug: the padded box is not cut at the right and bottom edges
extract_face_roi_unclamped(frame, landmarks) ==
    IF len(landmarks) = 0 THEN Raise("ValueError")
    ELSE
    LET h == frame.h
        w == frame.w
        x_coords == {RatMul(lm.x, R(w)) : lm \in items(landmarks)}
        y_coords == {RatMul(lm.y, R(h)) : lm \in items(landmarks)}
        x_min0 == int(min(x_coords))
        x_max0 == int(max(x_coords))
        y_min0 == int(min(y_coords))
        y_max0 == int(max(y_coords))
        padding == 20
        x_min == IF 0 > x_min0 - padding THEN 0 ELSE x_min0 - padding
        y_min == IF 0 > y_min0 - padding THEN 0 ELSE y_min0 - padding
    IN  Ok([x_min |-> x_min, y_min |-> y_min,
            x_max |-> x_max0 + padding, y_max |-> y_max0 + padding])

\* extract_face_roi: the bounds of the slice frame[y_min:y_max, x_min:x_max];
\* min() of an empty list raises ValueError
extract_face_roi(frame, landmarks) ==
    IF len(landmarks) = 0 THEN Raise("ValueError")
    ELSE
    LET h == frame.h
        w == frame.w
        x_coords == {RatMul(lm.x, R(w)) : lm \in items(landmarks)}
        y_coords == {RatMul(lm.y, R(h)) : lm \in items(landmarks)}
        x_min0 == int(min(x_coords))
        x_max0 == int(max(x_coords))
        y_min0 == int(min(y_coords))
        y_max0 == int(max(y_coords))
        padding == 20
        x_min == IF 0 > x_min0 - padding THEN 0 ELSE x_min0 - padding
        y_min == IF 0 > y_min0 - padding THEN 0 ELSE y_min0 - padding
        x_max == IF w < x_max0 + padding THEN w ELSE x_max0 + padding
        y_max == IF h < y_max0 + padding THEN h ELSE y_max0 + padding
    IN  Ok([x_min |-> x_min, y_min |-> y_min, x_max |-> x_max, y_max |-> y_max])

\* calculate_head_pose: indexing a list that is too short raises IndexError
calculate_head_pose(landmarks) ==
    LET nose_tip  == item(landmarks, NOSE_TIP)
        left_eye  == item(landmarks, LEFT_EYE)
        right_eye == item(landmarks, RIGHT_EYE)
    IN  IF nose_tip.exc # "none" THEN Raise(nose_tip.exc)
        ELSE IF left_eye.exc # "none" THEN Raise(left_eye.exc)
        ELSE IF right_eye.exc # "none" THEN Raise(right_eye.exc)
        ELSE Ok([yaw   |-> RatMul(RatSub(left_eye.val.x, right_eye.val.x), R(90)),
                 pitch |-> RatMul(RatSub(nose_tip.val.y,
                                         RatDiv(RatAdd(left_eye.val.y,
                                                       right_eye.val.y), R(2))),
                                  R(90)),
                 roll  |-> R(0)])

LowLighting == "Low lighting detected - may affect accuracy"
Overexposed == "Overexposed lighting - may affect accuracy"
FaceNotDetected == "Face not detected or too small"
FaceTurned == "Face turned too far to the side"
FaceTilted == "Face tilted too much"

\* the threshold bug: a value exactly at a threshold also warns
assess_frame_quality_inclusive(frame, landmarks) ==
    LET brightness == frame.luma
        w1 == IF ~RatLT(R(50), brightness) THEN <<LowLighting>>
              ELSE IF ~RatLT(brightness, R(200)) THEN <<Overexposed>>
              ELSE <<>>
        face_size == len(landmarks) > 0
        w2 == IF ~face_size THEN Append(w1, FaceNotDetected) ELSE w1
        pose == calculate_head_pose(landmarks)
    IN  IF pose.exc # "none" THEN Raise(pose.exc)
        ELSE
        LET w3 == IF ~RatLT(RatAbs(pose.val.yaw), R(30))
                  THEN Append(w2, FaceTurned) ELSE w2
            w4 == IF ~RatLT(RatAbs(pose.val.pitch), R(25))
                  THEN Append(w3, FaceTilted) ELSE w3
        IN  Ok(w4)

\* assess_frame_quality: the warnings, or the exception of the head pose step
assess_frame_quality(frame, landmarks) ==
    LET brightness == frame.luma
        w1 == IF RatLT(brightness, R(50)) THEN <<LowLighting>>
              ELSE IF RatLT(R(200), brightness) THEN <<Overexposed>>
              ELSE <<>>
        face_size == len(landmarks) > 0
        w2 == IF ~face_size THEN Append(w1, FaceNotDetected) ELSE w1
        pose == calculate_head_pose(landmarks)
    IN  IF pose.exc # "none" THEN Raise(pose.exc)
        ELSE
        LET w3 == IF RatLT(R(30), RatAbs(pose.val.yaw))
                  THEN Append(w2, FaceTurned) ELSE w2
            w4 == IF RatLT(R(25), RatAbs(pose.val.pitch))
                  THEN Append(w3, FaceTilted) ELSE w3
        IN  Ok(w4)

-----------------------------------------------------------------------------
\* The endpoints.  st is the process state [buffer, frame_times,
\* inference_times]; req is the FrameRequest; env holds what the collaborators
\* and the clock answer during the call: det (face_mesh.process), cls
\* (detect_emotion), inference_time and frame_time (time.time() differences).

LabelSet == {EMOTION_LABELS[i] : i \in 1..NLabels}

\* {label: float(prob) for label, prob in zip(EMOTION_LABELS, vector)}
probabilities_dict(v) ==
    [l \in LabelSet |-> v[CHOOSE i \in 1..NLabels : EMOTION_LABELS[i] = l]]

NoMetrics ==
    [some |-> FALSE, fps |-> R(0), latency_ms |-> R(0), inference_ms |-> R(0),
     face_detected |-> FALSE, landmarks_count |-> 0]

\* EmotionResponse; landmarks and metrics are Optional
EmotionResponse(emotion, confidence, probabilities, landmarks, metrics, warnings) ==
    [status |-> 200, detail |-> "", emotion |-> emotion, confidence |-> confidence,
     probabilities |-> probabilities, landmarks |-> landmarks,
     metrics |-> metrics, warnings |-> warnings]

\* the response FastAPI sends for a raised HTTPException
HTTPError(status_code, detail) ==
    [status |-> status_code, detail |-> detail, emotion |-> "",
     confidence |-> R(0), probabilities |-> [l \in LabelSet |-> R(0)],
     landmarks |-> [some |-> FALSE, val |-> EmptyList], metrics |-> NoMetrics,
     warnings |-> <<>>]

Returned(st, response) == [exc |-> "none", st |-> st, response |-> response]
Raised(st, e) == [exc |-> e, st |-> st, response |-> HTTPError(0, "")]

\* the no-face bug: the all-zero vector is fed to the smoother
no_face_smoothed(st) ==
    Returned([st EXCEPT !.buffer =
                  smooth(st.buffer, [i \in 1..NLabels |-> R(0)]).buffer],
             EmotionResponse("No Face Detected", R(0),
                             [l \in LabelSet |-> R(0)],
                             [some |-> FALSE, val |-> EmptyList], NoMetrics,
                             <<"No face detected in frame">>))

\* detect_emotion_endpoint, the early return when no face was found
no_face(st) ==
    Returned(st,
             EmotionResponse("No Face Detected", R(0),
                             [l \in LabelSet |-> R(0)],
                             [some |-> FALSE, val |-> EmptyList], NoMetrics,
                             <<"No face detected in frame">>))

\* detect_emotion_endpoint, from the smoothing step to the response
after_classification(st, req, landmarks_list, raw_probabilities, env) ==
    LET sm == smooth(st.buffer, raw_probabilities)
        st1 == [st EXCEPT !.buffer = sm.buffer]
        smoothed_probabilities == sm.out
        emotion_idx == np_argmax(smoothed_probabilities)
        emotion == EMOTION_LABELS[emotion_idx]
        confidence == smoothed_probabilities[emotion_idx]
        warnings == assess_frame_quality(req.frame, landmarks_list)
    IN  IF warnings.exc # "none" THEN Raised(st1, warnings.exc)
        ELSE
        LET st2 == [st1 EXCEPT
                      !.frame_times = add_frame_time(@, env.frame_time),
                      !.inference_times =
                          add_inference_time(@, env.inference_time)]
            fps == get_fps(st2.frame_times)
        IN  IF req.include_metrics /\ fps.exc # "none" THEN Raised(st2, fps.exc)
            ELSE Returned(st2,
                   EmotionResponse(
                     emotion, confidence,
                     probabilities_dict(smoothed_probabilities),
                     IF req.include_landmarks
                       THEN [some |-> TRUE, val |-> landmarks_list]
                       ELSE [some |-> FALSE, val |-> EmptyList],
                     IF req.include_metrics
                       THEN [some |-> TRUE, fps |-> fps.val,
                             latency_ms |-> RatMul(env.frame_time, R(1000)),
                             inference_ms |-> RatMul(env.inference_time, R(1000)),
                             face_detected |-> TRUE,
                             landmarks_count |-> len(landmarks_list)]
                       ELSE NoMetrics,
                     warnings.val))

\* detect_emotion_endpoint, the body of the try block
try_body(st, req, env) ==
    IF ~req.frame.ok THEN Raised(st, "HTTPException(400)")
    ELSE IF env.det.kind = "raise" THEN Raised(st, "DetectorError")
    ELSE IF env.det.kind = "none" THEN no_face(st)
    ELSE
    LET landmarks_list ==
            IF req.include_landmarks THEN env.det.landmarks ELSE EmptyList
        face_roi == extract_face_roi(req.frame, landmarks_list)
    IN  IF face_roi.exc # "none" THEN Raised(st, face_roi.exc)
        ELSE IF env.cls.kind = "raise" THEN Raised(st, "ClassifierError")
        ELSE after_classification(st, req, landmarks_list, env.cls.probs, env)

\* the retry bug: a detector that raised is asked a second time
invocations_retry(req, env) ==
    IF ~req.frame.ok THEN [detector |-> 0, classifier |-> 0]
    ELSE IF env.det.kind = "raise" THEN [detector |-> 2, classifier |-> 0]
    ELSE IF env.det.kind = "none" THEN [detector |-> 1, classifier |-> 0]
    ELSE IF extract_face_roi(req.frame,
                IF req.include_landmarks THEN env.det.landmarks
                ELSE EmptyList).exc # "none"
      THEN [detector |-> 1, classifier |-> 0]
    ELSE [detector |-> 1, classifier |-> 1]

\* detect_emotion_endpoint: how often the call reaches face_mesh.process and
\* detect_emotion on its way through the try block
invocations(req, env) ==
    IF ~req.frame.ok THEN [detector |-> 0, classifier |-> 0]
    ELSE IF env.det.kind \in {"raise", "none"}
      THEN [detector |-> 1, classifier |-> 0]
    ELSE IF extract_face_roi(req.frame,
                IF req.include_landmarks THEN env.det.landmarks
                ELSE EmptyList).exc # "none"
      THEN [detector |-> 1, classifier |-> 0]
    ELSE [detector |-> 1, classifier |-> 1]

\* detect_emotion_endpoint: "except Exception" turns whatever the body raised,
\* the HTTPException(400) of an undecodable frame included, into a 500
detect_emotion_endpoint(st, req, env) ==
    LET r == try_body(st, req, env)
    IN  IF r.exc = "none" THEN r
        ELSE [r EXCEPT !.response = HTTPError(500, "Processing error")]

\* the health bug: reading the throughput consumes the oldest frame time
health_check_consuming(st) ==
    LET fps == get_fps(st.frame_times)
    IN  [st |-> [st EXCEPT !.frame_times =
                      IF @ = <<>> THEN @ ELSE Tail(@)],
         exc |-> fps.exc,
         fps |-> fps.val,
         avg_inference_ms |-> get_avg_inference(st.inference_times)]

\* health_check; an exception of get_fps is not caught here
health_check(st) ==
    LET fps == get_fps(st.frame_times)
    IN  [st |-> st,
         exc |-> fps.exc,
         fps |-> fps.val,
         avg_inference_ms |-> get_avg_inference(st.inference_times)]

\* the partial reset bug: the inference times are left in place
reset_session_partial(st) ==
    [buffer |-> smoother_reset(st.buffer),
     frame_times |-> deque_clear(st.frame_times),
     inference_times |-> st.inference_times]

\* reset_session
reset_session(st) ==
    [buffer |-> smoother_reset(st.buffer),
     frame_times |-> deque_clear(st.frame_times),
     inference_times |-> deque_clear(st.inference_times)]

-----------------------------------------------------------------------------
\* Inputs of the model.

Point(x, y) == [x |-> x, y |-> y]

\* a landmark list of n points: the nose tip and both eye points where the
\* list is long enough to hold them, every other point at the nose tip
FaceMesh(n, nose_tip, left_eye, right_eye) ==
    [len |-> n,
     at |-> [i \in {k \in {NOSE_TIP, LEFT_EYE, RIGHT_EYE} : k < n} |->
               IF i = LEFT_EYE THEN left_eye
               ELSE IF i = RIGHT_EYE THEN right_eye
               ELSE nose_tip],
     dflt |-> nose_tip]

\* face_mesh.process with refine_landmarks=True yields 478 points
Frontal == FaceMesh(478, Point(Rat(1, 2), Rat(11, 20)),
                    Point(Rat(2, 5), Rat(9, 20)), Point(Rat(3, 5), Rat(9, 20)))
Turned  == FaceMesh(478, Point(Rat(1, 2), Rat(1, 2)),
                    Point(Rat(3, 10), Rat(1, 2)), Point(Rat(7, 10), Rat(1, 2)))
\* a detector whose list ends before the right eye point
Partial == FaceMesh(34, Point(Rat(1, 2), Rat(1, 2)),
                    Point(Rat(2, 5), Rat(1, 2)), Point(Rat(3, 5), Rat(1, 2)))

Undecodable == [ok |-> FALSE, h |-> 0, w |-> 0, luma |-> R(0)]
Image(h, w, luma) == [ok |-> TRUE, h |-> h, w |-> w, luma |-> luma]

Frames == {Undecodable, Image(100, 100, R(30))}

Requests ==
    [frame : Frames, include_landmarks : BOOLEAN, include_metrics : BOOLEAN]

V(a, b, c, d, e, f, g) ==
    <<Rat(a, 10), Rat(b, 10), Rat(c, 10), Rat(d, 10), Rat(e, 10),
      Rat(f, 10), Rat(g, 10)>>

\* classifier outputs: non-negative, summing to 1
ProbVectors == {V(1, 1, 1, 4, 1, 1, 1), V(4, 1, 1, 1, 1, 1, 1)}

NoDetection == [kind |-> "none", landmarks |-> EmptyList]
DetectorFails == [kind |-> "raise", landmarks |-> EmptyList]
Face(landmarks) == [kind |-> "face", landmarks |-> landmarks]
Detections == {NoDetection, DetectorFails, Face(Frontal), Face(Turned), Face(Partial)}

ClassifierFails == [kind |-> "raise", probs |-> <<>>]
Probs(v) == [kind |-> "probs", probs |-> v]
Classifications == {ClassifierFails} \cup {Probs(v) : v \in ProbVectors}

\* (inference_time, frame_time) in seconds; a clock that did not advance
\* between two readings gives 0.0
Timings == {<<R(0), R(0)>>, <<Rat(1, 50), Rat(1, 10)>>}

UnusedEnv ==
    [det |-> NoDetection, cls |-> ClassifierFails,
     inference_time |-> R(0), frame_time |-> R(0)]

\* what the collaborators may answer to req; an answer the call never asks
\* for is left at its default
Envs(req) ==
    IF ~req.frame.ok THEN {UnusedEnv}
    ELSE {[UnusedEnv EXCEPT !.det = d] : d \in {NoDetection, DetectorFails}}
         \cup
         {[det |-> d, cls |-> c, inference_time |-> t[1], frame_time |-> t[2]] :
            d \in {x \in Detections : x.kind = "face"},
            c \in IF req.include_landmarks THEN Classifications
                  ELSE {ClassifierFails},
            t \in Timings}

-----------------------------------------------------------------------------
\* The service: one process, one request handled at a time.

State == [buffer |-> buffer, frame_times |-> frame_times,
          inference_times |-> inference_times]

Init ==
    /\ buffer = <<>>
    /\ tasks = <<>>
    /\ frame_times = <<>>
    /\ inference_times = <<>>
    /\ last = [op |-> "start"]
    /\ calls = 0
    /\ log = "clean"

\* POST /detect
Analyze ==
    /\ UNCHANGED tasks
    /\ calls < MaxCalls
    /\ \E req \in Requests : \E env \in Envs(req) :
         \E r \in {detect_emotion_endpoint(State, req, env)} :
             /\ buffer' = r.st.buffer
             /\ frame_times' = r.st.frame_times
             /\ inference_times' = r.st.inference_times
             /\ last' = [op |-> "detect", req |-> req, env |-> env,
                         invoked |-> invocations(req, env),
                         response |-> r.response]
             /\ log' = IF r.response.status = 200
                          /\ r.response.emotion = "No Face Detected"
                       THEN log ELSE "used"
    /\ calls' = calls + 1

\* GET /health
Health ==
    /\ UNCHANGED tasks
    /\ calls < MaxCalls
    /\ \E r \in {health_check(State)} :
           /\ buffer' = r.st.buffer
           /\ frame_times' = r.st.frame_times
           /\ inference_times' = r.st.inference_times
           /\ last' = [op |-> "health", exc |-> r.exc, fps |-> r.fps,
                       avg_inference_ms |-> r.avg_inference_ms]
    /\ calls' = calls + 1
    /\ UNCHANGED log

\* POST /reset
Reset ==
    /\ UNCHANGED tasks
    /\ calls < MaxCalls
    /\ \E st \in {reset_session(State)} :
           /\ buffer' = st.buffer
           /\ frame_times' = st.frame_times
           /\ inference_times' = st.inference_times
    /\ last' = [op |-> "reset", before |-> State]
    /\ calls' = calls + 1
    /\ log' = "clean"

Next == Analyze \/ Health \/ Reset

Spec == Init /\ [][Next]_vars

-----------------------------------------------------------------------------
\* The TemporalSmoother alone: any sequence of smooth() and reset() calls.
\* log.passed holds the vectors passed to smooth() since the last reset(),
\* log.dropped counts the vectors resets have discarded.

SmoothVectors ==
    {V(1, 1, 1, 4, 1, 1, 1), V(4, 1, 1, 1, 1, 1, 1), V(0, 0, 0, 0, 0, 0, 10)}

SmootherInit ==
    /\ buffer = <<>>
    /\ tasks = <<>>
    /\ frame_times = <<>>
    /\ inference_times = <<>>
    /\ last = [op |-> "start"]
    /\ calls = 0
    /\ log = [passed |-> <<>>, dropped |-> 0]

SmoothCall ==
    /\ UNCHANGED tasks
    /\ calls < MaxSmooth
    /\ \E v \in SmoothVectors : \E r \in {smooth(buffer, v)} :
         /\ buffer' = r.buffer
         /\ last' = [op |-> "smooth", arg |-> v, out |-> r.out]
         /\ log' = [log EXCEPT !.passed = Append(@, v)]
    /\ calls' = calls + 1
    /\ UNCHANGED <<frame_times, inference_times>>

SmootherResetCall ==
    /\ UNCHANGED tasks
    /\ calls < MaxSmooth
    /\ buffer' = smoother_reset(buffer)
    /\ last' = [op |-> "reset"]
    /\ log' = [passed |-> <<>>, dropped |-> log.dropped + Len(log.passed)]
    /\ calls' = calls + 1
    /\ UNCHANGED <<frame_times, inference_times>>

SmootherNext == SmoothCall \/ SmootherResetCall

SmootherSpec == SmootherInit /\ [][SmootherNext]_vars

-----------------------------------------------------------------------------
\* The MetricsTracker alone: any interleaving of recordings into the two
\* buffers and of resets.  The durations recorded follow a stream chosen at
\* the start (log.stream, repeated); log.frames and log.inferences hold
\* every duration recorded since the last reset.

Streams ==
    {<<R(0)>>, <<Rat(1, 10)>>, <<Rat(1, 10), Rat(1, 5), Rat(1, 50), R(0)>>}

\* the duration the stream gives after n recordings
NextDuration(stream, n) == stream[(n % Len(stream)) + 1]

MetricsInit ==
    /\ buffer = <<>>
    /\ tasks = <<>>
    /\ frame_times = <<>>
    /\ inference_times = <<>>
    /\ last = [op |-> "start"]
    /\ calls = 0
    /\ \E stream \in Streams :
         log = [stream |-> stream, frames |-> <<>>, inferences |-> <<>>]

RecordFrameTime ==
    /\ UNCHANGED tasks
    /\ Len(log.frames) < MaxRecord
    /\ \E d \in {NextDuration(log.stream, Len(log.frames))} :
         /\ frame_times' = add_frame_time(frame_times, d)
         /\ log' = [log EXCEPT !.frames = Append(@, d)]
    /\ last' = [op |-> "add_frame_time"]
    /\ UNCHANGED <<buffer, inference_times, calls>>

RecordInferenceTime ==
    /\ UNCHANGED tasks
    /\ Len(log.inferences) < MaxRecord
    /\ \E d \in {NextDuration(log.stream, Len(log.inferences))} :
         /\ inference_times' = add_inference_time(inference_times, d)
         /\ log' = [log EXCEPT !.inferences = Append(@, d)]
    /\ last' = [op |-> "add_inference_time"]
    /\ UNCHANGED <<buffer, frame_times, calls>>

MetricsReset ==
    /\ UNCHANGED tasks
    /\ calls < MaxCalls
    /\ \E st \in {reset_session(State)} :
         /\ buffer' = st.buffer
         /\ frame_times' = st.frame_times
         /\ inference_times' = st.inference_times
    /\ last' = [op |-> "reset"]
    /\ log' = [log EXCEPT !.frames = <<>>, !.inferences = <<>>]
    /\ calls' = calls + 1

MetricsNext == RecordFrameTime \/ RecordInferenceTime \/ MetricsReset

MetricsSpec == MetricsInit /\ [][MetricsNext]_vars

-----------------------------------------------------------------------------
\* assess_frame_quality alone: the inputs are drawn at the start, the one
\* step applies the function to them.

QualityLumas == {R(30), R(49), R(50), R(120), R(200), R(201)}

QualityLandmarks ==
    {EmptyList} \cup
    {FaceMesh(n, Point(Rat(1, 2), ny), Point(e[1], Rat(1, 2)), Point(e[2], Rat(1, 2))) :
        n \in {2, 34, 264, 478},
        ny \in {Rat(1, 2), Rat(7, 9), Rat(4, 5)},
        e \in {<<Rat(2, 5), Rat(3, 5)>>, <<Rat(1, 3), Rat(2, 3)>>,
               <<Rat(3, 10), Rat(7, 10)>>}}

QualityInit ==
    /\ buffer = <<>>
    /\ tasks = <<>>
    /\ frame_times = <<>>
    /\ inference_times = <<>>
    /\ calls = 0
    /\ log = "clean"
    /\ \E luma \in QualityLumas : \E landmarks \in QualityLandmarks :
         last = [op |-> "input", frame |-> Image(100, 100, luma),
                 landmarks |-> landmarks]

AssessQuality ==
    /\ UNCHANGED tasks
    /\ last.op = "input"
    /\ last' = [op |-> "assess", frame |-> last.frame,
                landmarks |-> last.landmarks,
                result |-> assess_frame_quality(last.frame, last.landmarks)]
    /\ calls' = calls + 1
    /\ UNCHANGED <<buffer, frame_times, inference_times, log>>

QualityNext == AssessQuality

QualitySpec == QualityInit /\ [][QualityNext]_vars

-----------------------------------------------------------------------------
\* The service under concurrent requests.  uvicorn.run serves the app from
\* one process with one asyncio event loop; each endpoint is a coroutine
\* ("async def") whose body holds no await.  tasks holds the requests that
\* have arrived, each with the statement it has reached (pc), and every step
\* below is one access of the handler to the shared smoother or tracker.
\* log.ok holds the raw vectors of the Analyze calls that returned an emotion
\* since the last reset, in the order the calls finished.

Task(kind, req, env) ==
    [kind |-> kind, pc |-> "pending", req |-> req, env |-> env,
     smoothed |-> <<>>, warnings |-> <<>>, fps |-> R(0),
     avg_inference_ms |-> R(0), status |-> 0]

ConcRequest ==
    [frame |-> Image(100, 100, R(120)), include_landmarks |-> TRUE,
     include_metrics |-> TRUE]

ConcEnvs ==
    {[UnusedEnv EXCEPT !.det = NoDetection],
     [det |-> Face(Frontal), cls |-> Probs(V(1, 1, 1, 4, 1, 1, 1)),
      inference_time |-> Rat(1, 50), frame_time |-> Rat(1, 10)],
     [det |-> Face(Frontal), cls |-> Probs(V(4, 1, 1, 1, 1, 1, 1)),
      inference_time |-> Rat(1, 50), frame_time |-> Rat(1, 10)],
     [det |-> Face(Partial), cls |-> Probs(V(4, 1, 1, 1, 1, 1, 1)),
      inference_time |-> Rat(1, 50), frame_time |-> Rat(1, 10)]}

Arrivals ==
    {Task("detect", ConcRequest, env) : env \in ConcEnvs}
    \cup {Task("health", ConcRequest, UnusedEnv),
          Task("reset", ConcRequest, UnusedEnv)}

\* the threaded bug: the handlers run as plain "def" endpoints in a thread
\* pool, where any started handler may take the next step
may_run_threaded(ts, i) == TRUE

\* the event loop: a coroutine that has started keeps the loop until it
\* awaits or returns, and no handler awaits, so task i takes a step only
\* while every other task is still waiting or has returned
may_run(ts, i) ==
    \A j \in DOMAIN ts : j # i => ts[j].pc \in {"pending", "done"}

Finished(t, status) == [t EXCEPT !.pc = "done", !.status = status]

\* detect_emotion_endpoint, one access to the shared state at a time
detect_step(st, t) ==
    IF t.pc = "pending" THEN
        LET roi == extract_face_roi(t.req.frame,
                       IF t.req.include_landmarks THEN t.env.det.landmarks
                       ELSE EmptyList)
        IN  IF ~t.req.frame.ok \/ t.env.det.kind = "raise"
              THEN [st |-> st, task |-> Finished(t, 500)]
            ELSE IF t.env.det.kind = "none"
              THEN [st |-> st, task |-> Finished(t, no_face(st).response.status)]
            ELSE IF roi.exc # "none" \/ t.env.cls.kind = "raise"
              THEN [st |-> st, task |-> Finished(t, 500)]
            ELSE [st |-> st, task |-> [t EXCEPT !.pc = "classified"]]
    ELSE IF t.pc = "classified" THEN
        LET sm == smooth(st.buffer, t.env.cls.probs)
        IN  [st |-> [st EXCEPT !.buffer = sm.buffer],
             task |-> [t EXCEPT !.pc = "smoothed", !.smoothed = sm.out]]
    ELSE IF t.pc = "smoothed" THEN
        LET warnings == assess_frame_quality(t.req.frame,
                            IF t.req.include_landmarks THEN t.env.det.landmarks
                            ELSE EmptyList)
        IN  IF warnings.exc # "none"
              THEN [st |-> st, task |-> Finished(t, 500)]
            ELSE [st |-> st,
                  task |-> [t EXCEPT !.pc = "assessed",
                                     !.warnings = warnings.val]]
    ELSE IF t.pc = "assessed" THEN
        [st |-> [st EXCEPT !.frame_times = add_frame_time(@, t.env.frame_time)],
         task |-> [t EXCEPT !.pc = "frame_recorded"]]
    ELSE IF t.pc = "frame_recorded" THEN
        [st |-> [st EXCEPT !.inference_times =
                               add_inference_time(@, t.env.inference_time)],
         task |-> [t EXCEPT !.pc = "recorded"]]
    ELSE
        LET fps == get_fps(st.frame_times)
        IN  IF t.req.include_metrics /\ fps.exc # "none"
              THEN [st |-> st, task |-> Finished(t, 500)]
            ELSE [st |-> st,
                  task |-> [Finished(t, 200) EXCEPT !.fps = fps.val]]

\* health_check: the two reads of the tracker
health_step(st, t) ==
    IF t.pc = "pending" THEN
        LET fps == get_fps(st.frame_times)
        IN  IF fps.exc # "none" THEN [st |-> st, task |-> Finished(t, 500)]
            ELSE [st |-> st,
                  task |-> [t EXCEPT !.pc = "fps_read", !.fps = fps.val]]
    ELSE
        [st |-> st,
         task |-> [Finished(t, 200) EXCEPT
                     !.avg_inference_ms =
                         get_avg_inference(st.inference_times)]]

\* reset_session: the three clearing statements
reset_step(st, t) ==
    IF t.pc = "pending" THEN
        [st |-> [st EXCEPT !.buffer = smoother_reset(@)],
         task |-> [t EXCEPT !.pc = "smoother_cleared"]]
    ELSE IF t.pc = "smoother_cleared" THEN
        [st |-> [st EXCEPT !.frame_times = deque_clear(@)],
         task |-> [t EXCEPT !.pc = "frames_cleared"]]
    ELSE
        [st |-> [st EXCEPT !.inference_times = deque_clear(@)],
         task |-> Finished(t, 200)]

ConcInit ==
    /\ buffer = <<>>
    /\ frame_times = <<>>
    /\ inference_times = <<>>
    /\ tasks = <<>>
    /\ last = [op |-> "start", task |-> 0]
    /\ calls = 0
    /\ log = [ok |-> <<>>]

\* a request arrives
Submit ==
    /\ Len(tasks) < MaxTasks
    /\ \E t \in Arrivals : tasks' = Append(tasks, t)
    /\ last' = [op |-> "submit", task |-> Len(tasks) + 1]
    /\ UNCHANGED <<buffer, frame_times, inference_times, calls, log>>

\* POST /detect takes its next step
RunDetect ==
    \E i \in DOMAIN tasks :
        /\ tasks[i].kind = "detect"
        /\ tasks[i].pc # "done"
        /\ may_run(tasks, i)
        /\ \E r \in {detect_step(State, tasks[i])} :
             /\ buffer' = r.st.buffer
             /\ frame_times' = r.st.frame_times
             /\ inference_times' = r.st.inference_times
             /\ tasks' = [tasks EXCEPT ![i] = r.task]
             /\ log' = IF r.task.pc = "done" /\ r.task.status = 200
                          /\ r.task.env.det.kind = "face"
                       THEN [log EXCEPT !.ok = Append(@, r.task.env.cls.probs)]
                       ELSE log
        /\ last' = [op |-> "run", task |-> i]
        /\ UNCHANGED calls

\* GET /health takes its next step
RunHealth ==
    \E i \in DOMAIN tasks :
        /\ tasks[i].kind = "health"
        /\ tasks[i].pc # "done"
        /\ may_run(tasks, i)
        /\ \E r \in {health_step(State, tasks[i])} :
             /\ buffer' = r.st.buffer
             /\ frame_times' = r.st.frame_times
             /\ inference_times' = r.st.inference_times
             /\ tasks' = [tasks EXCEPT ![i] = r.task]
        /\ last' = [op |-> "run", task |-> i]
        /\ UNCHANGED <<calls, log>>

\* POST /reset takes its next step
RunReset ==
    \E i \in DOMAIN tasks :
        /\ tasks[i].kind = "reset"
        /\ tasks[i].pc # "done"
        /\ may_run(tasks, i)
        /\ \E r \in {reset_step(State, tasks[i])} :
             /\ buffer' = r.st.buffer
             /\ frame_times' = r.st.frame_times
             /\ inference_times' = r.st.inference_times
             /\ tasks' = [tasks EXCEPT ![i] = r.task]
        /\ log' = IF tasks[i].pc = "pending" THEN [ok |-> <<>>] ELSE log
        /\ last' = [op |-> "run", task |-> i]
        /\ UNCHANGED calls

ConcNext == Submit \/ RunDetect \/ RunHealth \/ RunReset

ConcSpec == ConcInit /\ [][ConcNext]_vars

-----------------------------------------------------------------------------
\* extract_face_roi alone: the frame and the landmarks are drawn at the
\* start, the one step applies the function to them.

\* (h, w) of the frame
FrameShapes == {<<100, 100>>, <<30, 10>>, <<480, 640>>}

\* normalized coordinates, the ends of [0, 1] included
Coordinates == {R(0), Rat(1, 4), Rat(1, 2), Rat(99, 100), R(1)}

GeometryPoints == {Point(x, y) : x \in Coordinates, y \in Coordinates}

\* lists holding one point, and lists holding two
GeometryLandmarks ==
    {FaceMesh(1, p, p, p) : p \in GeometryPoints}
    \cup {FaceMesh(34, p, q, q) : p \in GeometryPoints, q \in GeometryPoints}

GeometryInit ==
    /\ buffer = <<>>
    /\ frame_times = <<>>
    /\ inference_times = <<>>
    /\ tasks = <<>>
    /\ calls = 0
    /\ log = "clean"
    /\ \E s \in FrameShapes : \E landmarks \in GeometryLandmarks :
         last = [op |-> "input", frame |-> Image(s[1], s[2], R(120)),
                 landmarks |-> landmarks]

ExtractFaceRegion ==
    /\ last.op = "input"
    /\ last' = [op |-> "roi", frame |-> last.frame,
                landmarks |-> last.landmarks,
                result |-> extract_face_roi(last.frame, last.landmarks)]
    /\ calls' = calls + 1
    /\ UNCHANGED <<buffer, frame_times, inference_times, log, tasks>>

GeometryNext == ExtractFaceRegion

GeometrySpec == GeometryInit /\ [][GeometryNext]_vars

-----------------------------------------------------------------------------
\* Properties of the service (Spec).

\* the call just made was an Analyze for which the detector found no face
NoFaceCall(l) ==
    l.op = "detect" /\ l.req.frame.ok /\ l.env.det.kind = "none"

\* the call just made was an Analyze that returned an emotion for a face
FaceResult(l) ==
    l.op = "detect" /\ l.response.status = 200
    /\ l.response.emotion # "No Face Detected"

\* C1: an Analyze for which the detector finds no face returns the label
\* "No Face Detected", confidence 0.0 and a zero probability for each of the
\* seven labels, and leaves the smoothing buffer, the frame-time buffer and
\* the inference-time buffer as they were before the call.
C1_NoFaceLeavesState ==
    [][NoFaceCall(last') =>
         /\ last'.response.status = 200
         /\ last'.response.emotion = "No Face Detected"
         /\ last'.response.confidence = R(0)
         /\ DOMAIN last'.response.probabilities = LabelSet
         /\ Cardinality(LabelSet) = 7
         /\ \A l \in LabelSet : last'.response.probabilities[l] = R(0)
         /\ buffer' = buffer
         /\ frame_times' = frame_times
         /\ inference_times' = inference_times]_vars

C1_Witness ==
    /\ NoFaceCall(last)
    /\ last.response.emotion = "No Face Detected"
    /\ Len(buffer) > 0
    /\ Len(frame_times) > 0
    /\ Len(inference_times) > 0

\* C2 (as claimed): an Analyze call that fails leaves the smoothing buffer,
\* the frame-time buffer and the inference-time buffer identical to their
\* values before the call.
C2_FailedCallLeavesState ==
    [][(last'.op = "detect" /\ last'.response.status # 200) =>
         /\ buffer' = buffer
         /\ frame_times' = frame_times
         /\ inference_times' = inference_times]_vars

\* C3 (as claimed): an Analyze whose frame cannot be decoded is answered
\* with a client-input error (a 4xx status), never with the status that
\* reports an internal processing failure.
C3_InvalidFrameIsClientError ==
    (last.op = "detect" /\ ~last.req.frame.ok) =>
        /\ last.response.status \in 400..499
        /\ last.response.status # HTTPError(500, "Processing error").status

\* C4 (as claimed): for the same frame, the same collaborator answers and
\* the same prior state, an Analyze that succeeds with both flags set also
\* succeeds with any other choice of include_landmarks and include_metrics,
\* with the same label, confidence, probabilities and warnings, and leaves
\* the same state.
C4_FlagsOnlyChoosePresence ==
    [][(last'.op = "detect" /\ last'.response.status = 200
        /\ last'.req.include_landmarks /\ last'.req.include_metrics) =>
         \A il \in BOOLEAN, im \in BOOLEAN :
            LET other == detect_emotion_endpoint(
                             State,
                             [last'.req EXCEPT !.include_landmarks = il,
                                               !.include_metrics = im],
                             last'.env)
            IN  /\ other.response.status = last'.response.status
                /\ other.response.emotion = last'.response.emotion
                /\ other.response.confidence = last'.response.confidence
                /\ other.response.probabilities = last'.response.probabilities
                /\ other.response.warnings = last'.response.warnings
                /\ other.st.buffer = buffer'
                /\ other.st.frame_times = frame_times'
                /\ other.st.inference_times = inference_times']_vars

C8_HealthSnapshotReadOnly ==
    [][last'.op = "health" =>
         /\ buffer' = buffer
         /\ frame_times' = frame_times
         /\ inference_times' = inference_times
         /\ last.op = "health" =>
              /\ last'.exc = last.exc
              /\ last'.fps = last.fps
              /\ last'.avg_inference_ms = last.avg_inference_ms]_vars

C8_Witness ==
    /\ last.op = "health"
    /\ last.exc = "none"
    /\ last.fps = R(10)
    /\ Len(buffer) > 0
    /\ Len(frame_times) > 1
    /\ Len(inference_times) > 1

-----------------------------------------------------------------------------
\* Properties of the TemporalSmoother (SmootherSpec).

\* the last n items of s
LastN(s, n) == SubSeq(s, Len(s) - n + 1, Len(s))

Smaller(a, b) == IF a < b THEN a ELSE b

\* C5: the smoothing buffer holds the last min(k, N) vectors passed to Smooth
\* since the most recent Reset, in arrival order (k the number of Smooth calls
\* since that Reset, N the window size), so it never holds more than N; and
\* the value a Smooth call returns, multiplied by the number of those
\* vectors, is their element-wise sum.
C5_BufferIsLastN ==
    LET k == Len(log.passed)
        n == Smaller(k, window_size)
        held == LastN(log.passed, n)
    IN  /\ buffer = held
        /\ Len(buffer) <= window_size
        /\ last.op = "smooth" =>
             /\ n >= 1
             /\ held[n] = last.arg
             /\ \A i \in 1..NLabels :
                  RatMul(last.out[i], R(n)) =
                      sum([j \in 1..n |-> held[j][i]])

C5_Witness ==
    /\ last.op = "smooth"
    /\ Len(log.passed) > window_size
    /\ Len(buffer) = window_size
    /\ buffer[1] # buffer[window_size]
    /\ log.passed[1] # buffer[1]

\* what a freshly constructed smoother holds and returns after being passed
\* the vectors of s, one smooth() call each
RECURSIVE Fresh(_)
Fresh(s) ==
    IF s = <<>> THEN [buffer |-> <<>>, out |-> <<>>]
    ELSE smooth(Fresh(SubSeq(s, 1, Len(s) - 1)).buffer, s[Len(s)])

\* C6: the first Smooth after construction or after a Reset returns exactly
\* the vector it was passed, and after a Reset the smoother holds and returns
\* what a freshly constructed smoother does when passed the same vectors.
C6_ResetIsFresh ==
    /\ buffer = Fresh(log.passed).buffer
    /\ last.op = "smooth" =>
         /\ last.out = Fresh(log.passed).out
         /\ Len(log.passed) = 1 => last.out = last.arg
    /\ last.op = "reset" => buffer = <<>>

C6_Witness ==
    /\ last.op = "smooth"
    /\ Len(log.passed) = 1
    /\ log.dropped >= window_size
    /\ last.out = last.arg

-----------------------------------------------------------------------------
\* Properties of the MetricsTracker (MetricsSpec).

\* C9: each metrics buffer holds the most recent at most 30 durations
\* recorded since the last reset; the throughput is 0.0 for an empty
\* frame-time buffer and otherwise the number whose product with the mean
\* frame time is 1; the mean inference time in milliseconds is 0.0 for an
\* empty inference-time buffer and otherwise 1000 times the mean; frame
\* times [0.1, 0.1] give throughput 10.0.  (A mean frame time of 0.0 has no
\* reciprocal; that case is claim C20's.)
C9_MetricsWindowAndMeans ==
    LET nf == Smaller(Len(log.frames), 30)
        ni == Smaller(Len(log.inferences), 30)
        fps == get_fps(frame_times)
        ms == get_avg_inference(inference_times)
        tf == sum(frame_times)
        ti == sum(inference_times)
    IN  /\ frame_times = LastN(log.frames, nf)
        /\ inference_times = LastN(log.inferences, ni)
        /\ frame_times = <<>> => fps = Ok(R(0))
        /\ (frame_times # <<>> /\ tf # R(0)) =>
             /\ fps.exc = "none"
             /\ fps.val[1] * tf[1] = fps.val[2] * tf[2] * Len(frame_times)
        /\ inference_times = <<>> => ms = R(0)
        /\ inference_times # <<>> =>
             ms[1] * ti[2] * Len(inference_times) = 1000 * ti[1] * ms[2]
        /\ frame_times = <<Rat(1, 10), Rat(1, 10)>> => fps = Ok(R(10))

C9_Witness ==
    /\ Len(log.frames) > 30
    /\ Len(log.inferences) > 30
    /\ Len(frame_times) = 30
    /\ frame_times[1] # frame_times[30]
    /\ frame_times # SubSeq(log.frames, 1, 30)
    /\ get_fps(frame_times).exc = "none"
    /\ get_fps(frame_times).val # R(0)
    /\ get_avg_inference(inference_times) # R(0)

-----------------------------------------------------------------------------
\* Properties of assess_frame_quality (QualitySpec).

\* C10 (as claimed): with an empty landmark set AssessQuality returns
\* normally, and returns the lighting warning (if the mean luma is below 50
\* or above 200) followed by the face-not-detected warning and nothing else.
C10_EmptyLandmarksReturnsWarnings ==
    (last.op = "assess" /\ len(last.landmarks) = 0) =>
        /\ last.result.exc = "none"
        /\ last.result.val =
             (IF RatLT(last.frame.luma, R(50)) THEN <<LowLighting>>
              ELSE IF RatLT(R(200), last.frame.luma) THEN <<Overexposed>>
              ELSE <<>>) \o <<FaceNotDetected>>

-----------------------------------------------------------------------------
\* Properties of the service (Spec), continued.

\* the index of a label in the fixed order
LabelIndex(l) == CHOOSE i \in 1..NLabels : EMOTION_LABELS[i] = l

\* C11: an Analyze that returns an emotion for a face returns a label whose
\* returned probability no other label exceeds and which no label earlier in
\* [Angry, Disgust, Fear, Happy, Sad, Surprise, Neutral] equals, and the
\* returned confidence is the returned probability of that label.
C11_LabelIsFirstMaximum ==
    FaceResult(last) =>
        LET p == last.response.probabilities
            e == last.response.emotion
        IN  /\ e \in LabelSet
            /\ \A l \in LabelSet : ~RatLT(p[e], p[l])
            /\ \A l \in LabelSet :
                 LabelIndex(l) < LabelIndex(e) => RatLT(p[l], p[e])
            /\ last.response.confidence = p[e]

\* two labels tie for the maximum after smoothing, and the smoothed value
\* differs from the raw one
C11_Witness ==
    /\ FaceResult(last)
    /\ last.response.emotion = "Angry"
    /\ last.response.probabilities["Happy"] =
           last.response.probabilities["Angry"]
    /\ last.response.confidence # last.env.cls.probs[1]

-----------------------------------------------------------------------------
\* Properties of the TemporalSmoother (SmootherSpec), continued.

\* the sum of the entries of a vector
Total(v) == sum([i \in 1..Len(v) |-> v[i]])

\* C12: when every vector passed to Smooth sums to 1.0, every value Smooth
\* returns sums to 1.0 within 1e-6, whatever the number of buffered vectors
\* and whatever resets came before.
C12_SmoothedSumsToOne ==
    (last.op = "smooth" /\ \A v \in SmoothVectors : Total(v) = R(1)) =>
        ~RatLT(Rat(1, 1000000), RatAbs(RatSub(Total(last.out), R(1))))

C12_Witness ==
    /\ last.op = "smooth"
    /\ \A v \in SmoothVectors : Total(v) = R(1)
    /\ log.dropped > 0
    /\ Len(buffer) = window_size
    /\ last.out # last.arg
    /\ Total(last.out) = R(1)


\* C16 (as claimed): an Analyze whose landmark list is non-empty but ends
\* before one of the indices 1, 33 and 263 skips the head pose: it returns a
\* normal result, without the turned and the tilted warning.
C16_ShortLandmarksSkipPose ==
    (/\ last.op = "detect"
     /\ last.req.frame.ok
     /\ last.req.include_landmarks
     /\ last.env.det.kind = "face"
     /\ len(last.env.det.landmarks) > 0
     /\ len(last.env.det.landmarks) <= RIGHT_EYE
     /\ last.env.cls.kind = "probs") =>
        /\ last.response.status = 200
        /\ last.response.emotion \in LabelSet
        /\ \A i \in DOMAIN last.response.warnings :
             last.response.warnings[i] \notin {FaceTurned, FaceTilted}

\* the landmark list holds the nose tip and both eye points
HasPosePoints(landmarks) ==
    {NOSE_TIP, LEFT_EYE, RIGHT_EYE} \subseteq 0..(len(landmarks) - 1)

\* C17: for a landmark list holding the three designated points,
\* assess_frame_quality returns, in this order and each at most once, the
\* lighting warning (low lighting iff luma < 50, overexposed iff luma > 200),
\* the turned warning iff |(left_eye.x - right_eye.x) * 90| > 30 and the
\* tilted warning iff |(nose.y - mean(left_eye.y, right_eye.y)) * 90| > 25; a
\* value exactly at 50, 200, 30 or 25 gives no warning; roll is 0; eyes at
\* x = 0.3 and x = 0.7 give yaw -36 and the turned warning.
C17_WarningsInOrder ==
    (last.op = "assess" /\ HasPosePoints(last.landmarks)) =>
        LET luma == last.frame.luma
            nose == last.landmarks.at[NOSE_TIP]
            lefteye == last.landmarks.at[LEFT_EYE]
            righteye == last.landmarks.at[RIGHT_EYE]
            yaw == RatMul(RatSub(lefteye.x, righteye.x), R(90))
            pitch == RatMul(RatSub(nose.y, RatDiv(RatAdd(lefteye.y, righteye.y),
                                                  R(2))), R(90))
            lighting == IF RatLT(luma, R(50)) THEN <<LowLighting>>
                        ELSE IF RatLT(R(200), luma) THEN <<Overexposed>>
                        ELSE <<>>
            turned == IF RatLT(R(30), RatAbs(yaw)) THEN <<FaceTurned>> ELSE <<>>
            tilted == IF RatLT(R(25), RatAbs(pitch)) THEN <<FaceTilted>> ELSE <<>>
            pose == calculate_head_pose(last.landmarks)
        IN  /\ last.result.exc = "none"
            /\ last.result.val = lighting \o turned \o tilted
            /\ ~(RatLT(luma, R(50)) /\ RatLT(R(200), luma))
            /\ Cardinality({last.result.val[i] : i \in DOMAIN last.result.val})
                   = Len(last.result.val)
            /\ luma \in {R(50), R(200)} => lighting = <<>>
            /\ RatAbs(yaw) = R(30) => turned = <<>>
            /\ RatAbs(pitch) = R(25) => tilted = <<>>
            /\ pose.exc = "none"
            /\ pose.val.roll = R(0)
            /\ (lefteye.x = Rat(3, 10) /\ righteye.x = Rat(7, 10)) =>
                   /\ pose.val.yaw = R(-36)
                   /\ \E i \in DOMAIN last.result.val :
                          last.result.val[i] = FaceTurned

C17_Witness ==
    /\ last.op = "assess"
    /\ HasPosePoints(last.landmarks)
    /\ last.frame.luma = R(200)
    /\ RatAbs(calculate_head_pose(last.landmarks).val.yaw) = R(30)
    /\ RatAbs(calculate_head_pose(last.landmarks).val.pitch) = R(25)
    /\ last.result = Ok(<<>>)

\* C18: one Analyze invokes the detector at most once and the classifier at
\* most once; the classifier is not invoked when no face was found; after a
\* failure of either there is no second invocation and the call ends with the
\* processing error, which differs from the "No Face Detected" result.
C18_NoRetry ==
    last.op = "detect" =>
        /\ last.invoked.detector <= 1
        /\ last.invoked.classifier <= 1
        /\ NoFaceCall(last) =>
             /\ last.invoked.classifier = 0
             /\ last.response.status = 200
             /\ last.response.emotion = "No Face Detected"
        /\ (last.req.frame.ok /\ last.env.det.kind = "raise") =>
             /\ last.invoked = [detector |-> 1, classifier |-> 0]
             /\ last.response = HTTPError(500, "Processing error")
        /\ (last.invoked.classifier = 1 /\ last.env.cls.kind = "raise") =>
             /\ last.invoked.detector = 1
             /\ last.response = HTTPError(500, "Processing error")
        /\ HTTPError(500, "Processing error") # no_face(State).response

C18_Witness ==
    /\ last.op = "detect"
    /\ last.invoked = [detector |-> 1, classifier |-> 1]
    /\ last.env.cls.kind = "raise"
    /\ last.response.status = 500
    /\ Len(buffer) > 0

\* C19: after any sequence of Analyze, HealthSnapshot and ResetSession calls
\* the frame-time buffer and the inference-time buffer have the same length;
\* a reset leaves both empty.
C19_MetricsBuffersSameLength ==
    /\ Len(frame_times) = Len(inference_times)
    /\ last.op = "reset" => Len(frame_times) = 0

C19_Witness ==
    /\ last.op = "detect"
    /\ last.response.status = 500
    /\ last.env.det.kind = "face"
    /\ Len(frame_times) = 2
    /\ Len(inference_times) = 2
    /\ Len(buffer) = 3

\* C20 (as claimed): in every state of the metrics tracker, one whose frame
\* times are all zero included, get_fps returns a number and does not fail
\* with a division by zero.
C20_ThroughputNeverFails ==
    /\ get_fps(frame_times).exc = "none"
    /\ get_fps(frame_times).exc # "ZeroDivisionError"

-----------------------------------------------------------------------------
\* Properties of the service under concurrent requests (ConcSpec).

\* the reset tasks that have cleared the smoothing buffer and not yet both
\* metrics buffers
ResetUnderWay(ts) ==
    {i \in DOMAIN ts : ts[i].kind = "reset"
                       /\ ts[i].pc \in {"smoother_cleared", "frames_cleared"}}

\* C13: Reset is atomic with respect to concurrently submitted Analyze and
\* HealthSnapshot requests: between the clearing of the smoothing buffer and
\* the clearing of the two metrics buffers no other request is part-way
\* through its handler and none takes a step, so none observes or appends to
\* a partially cleared state.
C13_ResetIsAtomic ==
    [][\A i \in ResetUnderWay(tasks) : \A j \in DOMAIN tasks \ {i} :
         /\ tasks[j].pc \in {"pending", "done"}
         /\ tasks'[j] = tasks[j]]_vars

C13_Witness ==
    /\ \E i \in ResetUnderWay(tasks) :
         /\ tasks[i].pc = "smoother_cleared"
         /\ \E j \in DOMAIN tasks :
              /\ j < i
              /\ tasks[j].kind = "detect"
              /\ tasks[j].pc = "pending"
    /\ buffer = <<>>
    /\ Len(frame_times) > 0
    /\ Len(inference_times) > 0

\* C14 (as claimed): with Analyze requests submitted concurrently, whenever
\* no request is part-way through its handler the smoothing buffer holds
\* exactly the raw vectors of the last min(N, capacity) of the N Analyze calls
\* that returned an emotion since the last reset, in the order they ran.
C14_BufferHoldsSuccessfulCalls ==
    (\A i \in DOMAIN tasks : tasks[i].pc \in {"pending", "done"}) =>
        buffer = LastN(log.ok, Smaller(Len(log.ok), window_size))

-----------------------------------------------------------------------------
\* Properties of extract_face_roi (GeometrySpec).

\* the box of the example: a 100 x 100 frame, one landmark at (0.5, 0.5)
CentreBox ==
    (last.frame.h = 100 /\ last.frame.w = 100
     /\ items(last.landmarks) = {Point(Rat(1, 2), Rat(1, 2))}) =>
        last.result.val = [x_min |-> 30, y_min |-> 30, x_max |-> 70, y_max |-> 70]

\* C15 (as claimed): for a non-empty landmark set with coordinates in [0,1]
\* the four coordinates of the box lie in [0, width) x [0, height), with
\* x_min <= x_max and y_min <= y_max, and the 100 x 100 frame with one landmark
\* at (0.5, 0.5) gives [30,70] x [30,70].
C15_BoxInsideHalfOpenFrame ==
    (last.op = "roi" /\ len(last.landmarks) > 0) =>
        /\ last.result.exc = "none"
        /\ last.result.val.x_min \in 0..(last.frame.w - 1)
        /\ last.result.val.x_max \in 0..(last.frame.w - 1)
        /\ last.result.val.y_min \in 0..(last.frame.h - 1)
        /\ last.result.val.y_max \in 0..(last.frame.h - 1)
        /\ last.result.val.x_min <= last.result.val.x_max
        /\ last.result.val.y_min <= last.result.val.y_max
        /\ CentreBox

\* C15 (amended): x_min and y_min lie in [0, width) and [0, height); x_max and
\* y_max, the exclusive ends of the slice, lie in [0, width] and [0, height]
\* and reach width and height when the padded box crosses the edge;
\* x_min <= x_max and y_min <= y_max; the 100 x 100 frame with one landmark at
\* (0.5, 0.5) gives [30,70] x [30,70].
C15_BoxInsideClosedFrame ==
    (last.op = "roi" /\ len(last.landmarks) > 0) =>
        /\ last.result.exc = "none"
        /\ last.result.val.x_min \in 0..(last.frame.w - 1)
        /\ last.result.val.x_max \in 0..last.frame.w
        /\ last.result.val.y_min \in 0..(last.frame.h - 1)
        /\ last.result.val.y_max \in 0..last.frame.h
        /\ last.result.val.x_min <= last.result.val.x_max
        /\ last.result.val.y_min <= last.result.val.y_max
        /\ CentreBox

C15_Witness ==
    /\ last.op = "roi"
    /\ len(last.landmarks) > 0
    /\ last.result.exc = "none"
    /\ last.result.val.x_max = last.frame.w
    /\ last.result.val.y_max < last.frame.h
    /\ last.result.val.x_min > 0
=============================================================================
